---- MODULE Spec2Model ----
(***************************************************************************)
(* whatsapp_export_to_md_html.py: the message parser (parse_messages and   *)
(* its header patterns), the perspective selector (choose_me_name) and the *)
(* link preview resolver (build_preview) as state machines.                *)
(*                                                                         *)
(* A string is a sequence of characters; a character is a one-character    *)
(* string, except the characters that have no printable form, which are    *)
(* named: "LRM" U+200E, "RLM" U+200F, "LRE" U+202A, "RLE" U+202B,            *)
(* "PDF" U+202C, "BOM" U+FEFF, "NBSP" U+00A0, "ENDASH" U+2013.               *)
(***************************************************************************)
EXTENDS Integers, Sequences, FiniteSets, TLC

VARIABLES
    raw,        \* parse_messages: the lines of the file read so far
    msgs,       \* parse_messages: the list msgs
    last,       \* parse_messages: 0 for None, else the index in msgs of the Message last refers to
    pstate,     \* parse_messages: "loop", "returned", or "raised" (an exception left the function)
    authors,    \* choose_me_name: the argument
    tty,        \* choose_me_name: what sys.stdin.isatty() does: "tty", "notty" or "error"
    uniq,       \* choose_me_name: the candidate list
    cstate,     \* choose_me_name: "start", "prompt" or "returned"
    cinput,     \* choose_me_name: what the last input() gave: a string, or EOF
    cret,       \* choose_me_name: the value returned
    nprompts,   \* choose_me_name: the number of input() calls so far
    cache,      \* _preview_cache
    calls,      \* build_preview: the number of calls so far
    callUrl,    \* build_preview: the argument of the last call
    callHit,    \* build_preview: whether the last call found its URL in the cache
    callLog,    \* build_preview: the outbound fetches of the last call, in order
    callRet,    \* build_preview: what the last call gave: a Preview, None, or Raised
    pageFetches, \* build_preview: per URL, the page fetches issued so far
    utext,      \* extract_urls: the argument
    uout,       \* extract_urls: the list returned
    uagain,     \* extract_urls: the list returned for the space-joined uout
    ustate,     \* extract_urls: "start", "extracted" or "again"
    enable_previews, \* main: not args.no_previews, the argument of render_html
    rstate,     \* main: "html" (in render_html), "md" (in render_md) or "done"
    rpos,       \* render_html, render_md: the number of Messages the loop has taken
    rwant,      \* render_html: whether the Message taken last calls build_preview
    rurl,       \* render_html: the URL that call is for
    rcalls      \* render_html: the value of calls when the Message was taken

parseVars == <<raw, msgs, last, pstate>>
chooseVars == <<authors, tty, uniq, cstate, cinput, cret, nprompts>>
previewVars == <<cache, calls, callUrl, callHit, callLog, callRet, pageFetches>>
urlVars == <<utext, uout, uagain, ustate>>
renderVars == <<enable_previews, rstate, rpos, rwant, rurl, rcalls>>
vars == <<parseVars, chooseVars, previewVars, urlVars, renderVars>>

\* The bounds of the model.
MaxLines == 3
MaxAuthors == 3
MaxPrompts == 3
MaxCalls == 3
MaxTokens == 3
MaxMsgs == 2

-----------------------------------------------------------------------------
(* Strings *)

\* None where a string is expected: a group that took no part in the match.
NoGroup == <<>>

At(s, i) == IF i \in 1..Len(s) THEN s[i] ELSE "EOS"

Digits == <<"0", "1", "2", "3", "4", "5", "6", "7", "8", "9">>

IsDigit(c) == \E k \in 1..Len(Digits) : Digits[k] = c

DigitVal(c) == (CHOOSE k \in 1..Len(Digits) : Digits[k] = c) - 1

\* Python's \s and str.isspace() on the characters of the model.
IsSpace(c) == c \in {" ", "\t", "NBSP"}

RECURSIVE ToInt(_)
ToInt(ds) ==
    IF ds = <<>> THEN 0
    ELSE 10 * ToInt(SubSeq(ds, 1, Len(ds) - 1)) + DigitVal(ds[Len(ds)])

\* The length of the longest run of digits (of whitespace) of s that starts at i.
DigitRun(s, i) ==
    IF i > Len(s) THEN 0
    ELSE (CHOOSE j \in i..(Len(s) + 1) :
              /\ \A k \in i..(j - 1) : IsDigit(s[k])
              /\ ~IsDigit(At(s, j))) - i

SpaceRun(s, i) ==
    IF i > Len(s) THEN 0
    ELSE (CHOOSE j \in i..(Len(s) + 1) :
              /\ \A k \in i..(j - 1) : IsSpace(s[k])
              /\ ~IsSpace(At(s, j))) - i

\* str.replace(c, ""), for each c of cs.
RemoveChars(s, cs) == SelectSeq(s, LAMBDA c : c \notin cs)

\* str.replace(a, b) for single characters.
ReplaceChar(s, a, b) == [k \in 1..Len(s) |-> IF s[k] = a THEN b ELSE s[k]]

\* str.strip(): leading and trailing whitespace removed.
Strip(s) ==
    LET keep == {k \in 1..Len(s) : ~IsSpace(s[k])}
    IN  IF keep = {} THEN <<>>
        ELSE SubSeq(s, CHOOSE k \in keep : \A m \in keep : k <= m,
                       CHOOSE k \in keep : \A m \in keep : k >= m)

\* " ".join(s.split()): every whitespace run becomes one space, none at the ends.
JoinSplit(s) ==
    LET t == Strip(s)
    IN  SelectSeq([k \in 1..Len(t) |->
                      IF IsSpace(t[k])
                      THEN (IF IsSpace(At(t, k + 1)) THEN "DROP" ELSE " ")
                      ELSE t[k]],
                  LAMBDA c : c # "DROP")

NormMarks == {"LRM", "RLM", "LRE", "RLE", "PDF"}

norm_space(s) ==
    JoinSplit(RemoveChars(Strip(ReplaceChar(s, "NBSP", " ")), NormMarks))

\* str.split(sep) for a single character sep.
RECURSIVE Split(_, _)
Split(s, sep) ==
    IF \A k \in 1..Len(s) : s[k] # sep THEN <<s>>
    ELSE LET p == CHOOSE k \in 1..Len(s) :
                      s[k] = sep /\ \A m \in 1..(k - 1) : s[m] # sep
         IN  <<SubSeq(s, 1, p - 1)>> \o Split(SubSeq(s, p + 1, Len(s)), sep)

\* str.rstrip(chars).
RECURSIVE RStrip(_, _)
RStrip(s, cs) ==
    IF s # <<>> /\ s[Len(s)] \in cs THEN RStrip(SubSeq(s, 1, Len(s) - 1), cs) ELSE s

-----------------------------------------------------------------------------
(* Header patterns.  Every pattern is anchored at both ends and each of its *)
(* pieces is delimited by a character the piece cannot hold, so a line has  *)
(* at most one way to match; the operators compute that match.              *)

NoMatch == [ok |-> FALSE]

ValueError == [error |-> "ValueError"]

\* F(v), with v computed once.
With(v, F(_)) == CHOOSE r \in {F(x) : x \in {v}} : TRUE

\* The groups of `([^:]+?):\s*(.*)$`: the author is s[a..b], the colon stands at b + 1.
AuthorGroups(s, a, b) ==
    [ok |-> TRUE, author |-> SubSeq(s, a, b),
     text |-> SubSeq(s, b + 2 + SpaceRun(s, b + 2), Len(s))]

\* `\s+([^:]+?):\s*(.*)$` from position i: the tail of the three author patterns.
\* `\s+` is greedy and gives back one whitespace character to a lazy author
\* group that would otherwise be empty.
AuthorText(s, i) ==
    With(i + SpaceRun(s, i), LAMBDA r :
    With({k \in r..Len(s) : s[k] = ":"}, LAMBDA colons :
        IF r = i \/ colons = {} THEN NoMatch
        ELSE With(CHOOSE k \in colons : \A m \in colons : k <= m, LAMBDA p :
                 IF p > r THEN AuthorGroups(s, r, p - 1)
                 ELSE IF r - i >= 2 THEN AuthorGroups(s, r - 1, r - 1)
                 ELSE NoMatch)))

\* `\d{4}-\d{2}-\d{2}[ T]\d{2}:\d{2}:\d{2}` at positions 1..19.
IsoStamp(s) ==
    /\ \A k \in {1, 2, 3, 4, 6, 7, 9, 10, 12, 13, 15, 16, 18, 19} : IsDigit(At(s, k))
    /\ \A k \in {5, 8} : At(s, k) = "-"
    /\ At(s, 11) \in {" ", "T"}
    /\ \A k \in {14, 17} : At(s, k) = ":"

\* `\d{1,2}\.` from position i: the position after it, or 0.
DayOrMonth(s, i) ==
    With(DigitRun(s, i), LAMBDA n :
        IF i # 0 /\ n \in 1..2 /\ At(s, i + n) = "." THEN i + n + 1 ELSE 0)

\* `\d{1,2}\.\d{1,2}\.\d{2,4}` from position i: the position after it, or 0.
DateDe(s, i) ==
    With(DayOrMonth(s, DayOrMonth(s, i)), LAMBDA k :
    With(DigitRun(s, k), LAMBDA n :
        IF k # 0 /\ n \in 2..4 THEN k + n ELSE 0))

\* The groups of `(\d{1,2}:\d{2})(?::(\d{2}))?` that starts at i, the minutes ending at j - 1.
TimeGroups(s, i, j, sec) ==
    [ok |-> TRUE, t_hm |-> SubSeq(s, i, j - 1),
     t_sec |-> IF sec THEN SubSeq(s, j + 1, j + 2) ELSE NoGroup,
     next |-> IF sec THEN j + 3 ELSE j]

\* `(\d{1,2}:\d{2})(?::(\d{2}))?` from position i.
TimeDe(s, i) ==
    With(i + DigitRun(s, i), LAMBDA c :
        IF c - i \in 1..2 /\ At(s, c) = ":" /\ \A k \in {c + 1, c + 2} : IsDigit(At(s, k))
        THEN TimeGroups(s, i, c + 3,
                        At(s, c + 3) = ":" /\ \A k \in {c + 4, c + 5} : IsDigit(At(s, k)))
        ELSE NoMatch)

\* `(\d{1,2}\.\d{1,2}\.\d{2,4}),\s+(\d{1,2}:\d{2})(?::(\d{2}))?` from position i.
StampDe(s, i) ==
    With(DateDe(s, i), LAMBDA e :
        IF e # 0 /\ At(s, e) = "," /\ IsSpace(At(s, e + 1))
        THEN With(TimeDe(s, e + 1 + SpaceRun(s, e + 1)), LAMBDA t :
                 IF t.ok THEN [ok |-> TRUE, d |-> SubSeq(s, i, e - 1), t_hm |-> t.t_hm,
                               t_sec |-> t.t_sec, next |-> t.next]
                 ELSE NoMatch)
        ELSE NoMatch)

\* A match of the stamp and of the author tail, as the groups of one pattern.
DeGroups(st, a) ==
    IF a.ok
    THEN [ok |-> TRUE, d |-> st.d, t_hm |-> st.t_hm, t_sec |-> st.t_sec,
          author |-> a.author, text |-> a.text]
    ELSE NoMatch

pat_iso(str) ==
    With(str, LAMBDA s :
        IF IsoStamp(s)
        THEN With(AuthorText(s, 20), LAMBDA a :
                 IF a.ok
                 THEN [ok |-> TRUE, d_s |-> SubSeq(s, 1, 10), t_s |-> SubSeq(s, 12, 19),
                       author |-> a.author, text |-> a.text]
                 ELSE NoMatch)
        ELSE NoMatch)

pat_de(str) ==
    With(str, LAMBDA s :
    With(StampDe(s, 1), LAMBDA st :
        IF st.ok
        THEN With(st.next + SpaceRun(s, st.next), LAMBDA h :
                 IF h > st.next /\ At(s, h) = "-"
                 THEN DeGroups(st, AuthorText(s, h + 1))
                 ELSE NoMatch)
        ELSE NoMatch))

pat_bracket(str) ==
    With(str, LAMBDA s :
    With(StampDe(s, 2), LAMBDA st :
        IF At(s, 1) = "[" /\ st.ok /\ At(s, st.next) = "]"
        THEN DeGroups(st, AuthorText(s, st.next + 1))
        ELSE NoMatch))

\* `\s+[-ENDASH]\s+` from position i: the position after it, or 0.
DashSep(s, i) ==
    With(i + SpaceRun(s, i), LAMBDA h :
        IF h > i /\ At(s, h) \in {"-", "ENDASH"} /\ IsSpace(At(s, h + 1))
        THEN h + 1 + SpaceRun(s, h + 1) ELSE 0)

\* A match of a system pattern: the stamp's groups and the text from position q.
SysGroups(s, st, q) ==
    [ok |-> TRUE, date |-> st.d, time |-> st.t_hm, sec |-> st.t_sec,
     text |-> SubSeq(s, q, Len(s))]

\* `(?:\s+[-ENDASH]\s+|\s+)(?P<text>.*)$` after the ISO stamp: the dash
\* alternative is tried first.
pat_iso_sys(str) ==
    With(str, LAMBDA s :
    With(DashSep(s, 20), LAMBDA q :
        IF IsoStamp(s) /\ IsSpace(At(s, 20))
        THEN [ok |-> TRUE, date |-> SubSeq(s, 1, 10), time |-> SubSeq(s, 12, 19),
              text |-> SubSeq(s, IF q # 0 THEN q ELSE 20 + SpaceRun(s, 20), Len(s))]
        ELSE NoMatch))

pat_de_sys(str) ==
    With(str, LAMBDA s :
    With(StampDe(s, 1), LAMBDA st :
        IF st.ok
        THEN With(DashSep(s, st.next), LAMBDA q :
                 IF q # 0 THEN SysGroups(s, st, q) ELSE NoMatch)
        ELSE NoMatch))

pat_bracket_sys(str) ==
    With(str, LAMBDA s :
    With(StampDe(s, 2), LAMBDA st :
        IF At(s, 1) = "[" /\ st.ok /\ At(s, st.next) = "]" /\ IsSpace(At(s, st.next + 1))
        THEN SysGroups(s, st, st.next + 1 + SpaceRun(s, st.next + 1))
        ELSE NoMatch))

-----------------------------------------------------------------------------
(* Timestamps *)

IsLeap(y) == (y % 4 = 0 /\ y % 100 # 0) \/ y % 400 = 0

DaysInMonth(y, m) ==
    IF m = 2 THEN (IF IsLeap(y) THEN 29 ELSE 28)
    ELSE IF m \in {4, 6, 9, 11} THEN 30 ELSE 31

\* dt.datetime(year, month, day, hour, minute, second): the value, or ValueError.
datetime(y, mo, d, h, mi, sec) ==
    IF /\ y \in 1..9999 /\ mo \in 1..12 /\ d \in 1..DaysInMonth(y, mo)
       /\ h \in 0..23 /\ mi \in 0..59 /\ sec \in 0..59
    THEN [year |-> y, month |-> mo, day |-> d, hour |-> h, minute |-> mi, second |-> sec]
    ELSE ValueError

\* dt.datetime.fromisoformat(f"{d_s} {t_s}") on the two groups of pat_iso.
fromisoformat(d_s, t_s) ==
    datetime(ToInt(SubSeq(d_s, 1, 4)), ToInt(SubSeq(d_s, 6, 7)), ToInt(SubSeq(d_s, 9, 10)),
             ToInt(SubSeq(t_s, 1, 2)), ToInt(SubSeq(t_s, 4, 5)), ToInt(SubSeq(t_s, 7, 8)))

\* The year of parse_dt_de: `if year < 100: year += 2000`.
Century(yy) == IF yy < 100 THEN yy + 2000 ELSE yy

parse_dt_de(d, t_hm, t_s) ==
    With(Split(d, "."), LAMBDA dmy :
    With(Split(t_hm, ":"), LAMBDA hm :
        datetime(Century(ToInt(dmy[3])), ToInt(dmy[2]), ToInt(dmy[1]),
                 ToInt(hm[1]), ToInt(hm[2]),
                 IF t_s # NoGroup THEN ToInt(t_s) ELSE 0)))

-----------------------------------------------------------------------------
(* The lines a file is made of in the model. *)

\* an empty line
L_empty ==
    <<>>

\* a line that holds a direction mark only
L_mark ==
    <<"LRM">>

\* a line that holds a space only
L_space ==
    <<" ">>

\* ok
L_cont ==
    <<"o", "k">>

\* o<LRM>k
L_markcont ==
    <<"o", "LRM", "k">>

\* 2024-01-05 09:00:05 Bo: Hi!
H_iso ==
    <<"2", "0", "2", "4", "-", "0", "1", "-", "0", "5", " ", "0", "9", ":", "0", "0", ":",
      "0", "5", " ", "B", "o", ":", " ", "H", "i", "!">>

\* 2024-13-05 09:00:00 Al: x
H_isoBad ==
    <<"2", "0", "2", "4", "-", "1", "3", "-", "0", "5", " ", "0", "9", ":", "0", "0", ":",
      "0", "0", " ", "A", "l", ":", " ", "x">>

\* 05.01.24, 9:00 - Al: Hey
H_de ==
    <<"0", "5", ".", "0", "1", ".", "2", "4", ",", " ", "9", ":", "0", "0", " ", "-", " ",
      "A", "l", ":", " ", "H", "e", "y">>

\* 32.01.24, 9:00 - Al: Hey
H_deBad ==
    <<"3", "2", ".", "0", "1", ".", "2", "4", ",", " ", "9", ":", "0", "0", " ", "-", " ",
      "A", "l", ":", " ", "H", "e", "y">>

\* <LRM>[05.01.2024, 09:00:07] <LRM>Bo:
H_br ==
    <<"LRM", "[", "0", "5", ".", "0", "1", ".", "2", "0", "2", "4", ",", " ", "0", "9", ":",
      "0", "0", ":", "0", "7", "]", " ", "LRM", "B", "o", ":">>

\* [05.01.2024, 25:00] Bo: x
H_brBad ==
    <<"[", "0", "5", ".", "0", "1", ".", "2", "0", "2", "4", ",", " ", "2", "5", ":", "0",
      "0", "]", " ", "B", "o", ":", " ", "x">>

\* 05.01.24, 9:00 - Al joined
S_de ==
    <<"0", "5", ".", "0", "1", ".", "2", "4", ",", " ", "9", ":", "0", "0", " ", "-", " ",
      "A", "l", " ", "j", "o", "i", "n", "e", "d">>

\* 2024-01-05 09:00:00 joined
S_iso ==
    <<"2", "0", "2", "4", "-", "0", "1", "-", "0", "5", " ", "0", "9", ":", "0", "0", ":",
      "0", "0", " ", "j", "o", "i", "n", "e", "d">>

\* [05.01.2024, 09:00] joined
S_br ==
    <<"[", "0", "5", ".", "0", "1", ".", "2", "0", "2", "4", ",", " ", "0", "9", ":", "0",
      "0", "]", " ", "j", "o", "i", "n", "e", "d">>

\* 05.01.24, 9:00 <ENDASH> Al: Hey
H_deEn ==
    <<"0", "5", ".", "0", "1", ".", "2", "4", ",", " ", "9", ":", "0", "0", " ", "ENDASH",
      " ", "A", "l", ":", " ", "H", "e", "y">>

Lines ==
    {L_empty, L_mark, L_space, L_cont, L_markcont, H_iso, H_isoBad, H_de,
     H_deBad, H_br, H_brBad, S_de, S_iso, S_br, H_deEn}

-----------------------------------------------------------------------------
(* parse_messages.  The file's lines are the environment's choice; the loop *)
(* takes them one at a time, so raw holds the lines read so far and Return  *)
(* is the end of the file.                                                  *)

ParseMarks == {"BOM", "LRM", "RLM", "LRE", "RLE", "PDF"}

\* The line as the loop body sees it below its first two statements.
CleanLine(ln) ==
    LET line == RStrip(ln, {"\n"})
    IN  IF line # <<>> THEN RemoveChars(line, ParseMarks) ELSE line

Message(ts, author, text) == [ts |-> ts, author |-> author, text |-> text]

\* An empty line that is put into the first Message instead of the open one.
EmptyLineIntoFirst(ms, l) ==
    IF l # 0 THEN [ms EXCEPT ![1].text = @ \o <<"\n">>] ELSE ms

\* msgs after `if last is not None: last.text += "\n"`.
EmptyLineText(ms, l) ==
    IF l # 0 THEN [ms EXCEPT ![l].text = @ \o <<"\n">>] ELSE ms

\* A continuation that forgets the line break.
ContinuationNoBreak(ms, l, line) ==
    IF l # 0 THEN [ms EXCEPT ![l].text = @ \o line] ELSE ms

\* A continuation that keeps a line with no open Message as a Message of its own.
ContinuationKeepsOrphan(ms, l, line) ==
    IF l # 0 THEN [ms EXCEPT ![l].text = @ \o <<"\n">> \o line]
    ELSE Append(ms, Message(ValueError, <<>>, line))

\* msgs after `if last is not None: last.text += "\n" + line`, `else: pass`.
ContinuationText(ms, l, line) ==
    IF l # 0 THEN [ms EXCEPT ![l].text = @ \o <<"\n">> \o line] ELSE ms

ReadLine(ln) ==
    /\ pstate = "loop"
    /\ Len(raw) < MaxLines
    /\ raw' = Append(raw, ln)
    /\ UNCHANGED <<chooseVars, previewVars, urlVars, renderVars>>

\* The three statements that follow a match: the Message is appended and
\* becomes last; a ValueError of the timestamp's construction is not caught.
OpenMessage(ts, author, text) ==
    IF ts = ValueError
    THEN pstate' = "raised" /\ UNCHANGED <<msgs, last>>
    ELSE /\ msgs' = Append(msgs, Message(ts, norm_space(author), text))
         /\ last' = Len(msgs) + 1
         /\ UNCHANGED pstate

EmptyLine(ln) ==
    /\ ReadLine(ln)
    /\ CleanLine(ln) = <<>>
    /\ msgs' = EmptyLineText(msgs, last)
    /\ UNCHANGED <<last, pstate>>

HeaderIso(ln) ==
    /\ ReadLine(ln)
    /\ \E line \in {CleanLine(ln)} :
          /\ line # <<>>
          /\ \E m \in {pat_iso(line)} :
                /\ m.ok
                /\ OpenMessage(fromisoformat(m.d_s, m.t_s), m.author, m.text)

HeaderDe(ln) ==
    /\ ReadLine(ln)
    /\ \E line \in {CleanLine(ln)} :
          /\ line # <<>>
          /\ ~pat_iso(line).ok
          /\ \E m \in {pat_de(line)} :
                /\ m.ok
                /\ OpenMessage(parse_dt_de(m.d, m.t_hm, m.t_sec), m.author, m.text)

HeaderBracket(ln) ==
    /\ ReadLine(ln)
    /\ \E line \in {CleanLine(ln)} :
          /\ line # <<>>
          /\ ~pat_iso(line).ok
          /\ ~pat_de(line).ok
          /\ \E m \in {pat_bracket(line)} :
                /\ m.ok
                /\ OpenMessage(parse_dt_de(m.d, m.t_hm, m.t_sec), m.author, m.text)

Continuation(ln) ==
    /\ ReadLine(ln)
    /\ \E line \in {CleanLine(ln)} :
          /\ line # <<>>
          /\ ~pat_iso(line).ok
          /\ ~pat_de(line).ok
          /\ ~pat_bracket(line).ok
          /\ msgs' = ContinuationText(msgs, last, line)
          /\ UNCHANGED <<last, pstate>>

Return ==
    /\ pstate = "loop"
    /\ pstate' = "returned"
    /\ UNCHANGED <<raw, msgs, last, chooseVars, previewVars, urlVars, renderVars>>

ChooseIdle ==
    /\ authors = <<>> /\ tty = "notty" /\ uniq = <<>> /\ cstate = "idle"
    /\ cinput = [eof |-> FALSE, text |-> <<>>] /\ cret = <<>> /\ nprompts = 0

PreviewIdle ==
    /\ cache = <<>> /\ calls = 0 /\ callUrl = <<>> /\ callHit = FALSE
    /\ callLog = <<>> /\ callRet = [none |-> TRUE] /\ pageFetches = <<>>

ParseIdle ==
    /\ raw = <<>> /\ msgs = <<>> /\ last = 0 /\ pstate = "idle"

UrlIdle ==
    /\ utext = <<>> /\ uout = <<>> /\ uagain = <<>> /\ ustate = "idle"

RenderIdle ==
    /\ enable_previews = TRUE /\ rstate = "idle" /\ rpos = 0
    /\ rwant = FALSE /\ rurl = <<>> /\ rcalls = 0

InitParse ==
    /\ raw = <<>> /\ msgs = <<>> /\ last = 0 /\ pstate = "loop"
    /\ ChooseIdle /\ PreviewIdle /\ UrlIdle /\ RenderIdle

NextParse ==
    \/ \E ln \in Lines :
          \/ EmptyLine(ln)
          \/ HeaderIso(ln)
          \/ HeaderDe(ln)
          \/ HeaderBracket(ln)
          \/ Continuation(ln)
    \/ Return

SpecParse == InitParse /\ [][NextParse]_vars

-----------------------------------------------------------------------------
(* Properties of parse_messages *)

IsAuthorHeader(line) == pat_iso(line).ok \/ pat_de(line).ok \/ pat_bracket(line).ok

IsSysHeader(line) == pat_iso_sys(line).ok \/ pat_de_sys(line).ok \/ pat_bracket_sys(line).ok

\* The timestamp and the remainder of a line that matches an author pattern,
\* by the first pattern that matches.
HeaderTs(line) ==
    IF pat_iso(line).ok THEN fromisoformat(pat_iso(line).d_s, pat_iso(line).t_s)
    ELSE IF pat_de(line).ok
    THEN parse_dt_de(pat_de(line).d, pat_de(line).t_hm, pat_de(line).t_sec)
    ELSE parse_dt_de(pat_bracket(line).d, pat_bracket(line).t_hm, pat_bracket(line).t_sec)

HeaderText(line) ==
    IF pat_iso(line).ok THEN pat_iso(line).text
    ELSE IF pat_de(line).ok THEN pat_de(line).text
    ELSE pat_bracket(line).text

\* The remainder of a line that matches a system pattern.
SysText(line) ==
    IF pat_iso_sys(line).ok THEN pat_iso_sys(line).text
    ELSE IF pat_de_sys(line).ok THEN pat_de_sys(line).text
    ELSE pat_bracket_sys(line).text

\* What the patterns make of a line of the file, once its marks are removed.
LineFacts(ln) ==
    With(CleanLine(ln), LAMBDA line :
        [line |-> line,
         header |-> IsAuthorHeader(line),
         ts |-> IF IsAuthorHeader(line) THEN HeaderTs(line) ELSE ValueError,
         text |-> IF IsAuthorHeader(line) THEN HeaderText(line) ELSE <<>>,
         sys |-> IsSysHeader(line),
         systext |-> IF IsSysHeader(line) THEN SysText(line) ELSE <<>>])

Facts == [ln \in Lines |-> LineFacts(ln)]

\* A line of the file that is a header with a timestamp that exists.
GoodHeader(ln) == Facts[ln].header /\ Facts[ln].ts # ValueError

\* A line of the file that has the shape of a header and an invalid field value.
MalformedHeader(ln) == Facts[ln].header /\ Facts[ln].ts = ValueError

\* A line of the file that is a header in no sense: not of the author form, not of
\* the system form.
PlainLine(ln) == ~Facts[ln].header /\ ~Facts[ln].sys

\* A line of the file that is a system notice: of the system form only.
SysNotice(ln) == Facts[ln].line # <<>> /\ ~Facts[ln].header /\ Facts[ln].sys

\* A line with a character that is neither whitespace nor a mark.
Visible(ln) == \E k \in 1..Len(ln) : ~IsSpace(ln[k]) /\ ln[k] \notin ParseMarks

\* The text that lines add to the open Message: a line break and the line without
\* its marks, for each line in order.
RECURSIVE Absorbed(_)
Absorbed(lines) ==
    IF lines = <<>> THEN <<>>
    ELSE <<"\n">> \o Facts[Head(lines)].line \o Absorbed(Tail(lines))

\* The texts the lines may add when each line is appended as it stands in the
\* file: a line break alone for an empty line, a line break and the line for a line
\* with a visible character, either of the two for a line of whitespace or marks.
RECURSIVE AbsorbedAsInFile(_)
AbsorbedAsInFile(lines) ==
    IF lines = <<>> THEN {<<>>}
    ELSE LET ln == Head(lines)
             first == IF ln = <<>> THEN {<<"\n">>}
                      ELSE IF Visible(ln) THEN {<<"\n">> \o ln}
                      ELSE {<<"\n">>, <<"\n">> \o ln}
         IN  {a \o b : a \in first, b \in AbsorbedAsInFile(Tail(lines))}

\* The input is one header line followed by lines that are no headers.
HeaderThenPlain ==
    /\ pstate \in {"loop", "returned"}
    /\ raw # <<>>
    /\ GoodHeader(raw[1])
    /\ \A k \in 2..Len(raw) : PlainLine(raw[k])

\* C1 (as amended): one header line followed by lines that are no headers gives
\* exactly one Message, whose text is the header's remainder followed, for each of
\* these lines in order, by a line break and the line without its BOM and direction
\* marks (so a line that is empty without them adds the line break alone).
C1_ContinuationAbsorption ==
    HeaderThenPlain =>
        /\ Len(msgs) = 1
        /\ msgs[1].text = Facts[raw[1]].text \o Absorbed(Tail(raw))

C1_Witness ==
    /\ HeaderThenPlain
    /\ pstate = "returned"
    /\ Len(raw) = 3
    /\ \E k \in 2..3 : Facts[raw[k]].line = <<>>
    /\ \E k \in 2..3 : Visible(raw[k]) /\ Facts[raw[k]].line # raw[k]

\* C1 (as stated): the text is the header's remainder followed by a line break and
\* the line, as it stands in the file, for each non-blank line, and by a line break
\* for each blank line.
C1_AsStated ==
    HeaderThenPlain =>
        /\ Len(msgs) = 1
        /\ \E t \in AbsorbedAsInFile(Tail(raw)) :
              msgs[1].text = Facts[raw[1]].text \o t

\* C3 (as stated): a line with the shape of a header and an invalid field value is
\* handled as a line that matches no pattern (appended to the open Message, or
\* dropped when none is open) and the parse goes on.
C3_MalformedHeaderIsContinuation ==
    [][(Len(raw') = Len(raw) + 1 /\ MalformedHeader(raw'[Len(raw')])) =>
          /\ pstate' = "loop"
          /\ last' = last
          /\ msgs' = ContinuationText(msgs, last, Facts[raw'[Len(raw')]].line)]_vars

\* C4 (as stated): a line that matches no author pattern and matches a system
\* pattern opens a Message of its own, with an empty author and the remainder
\* as its text, which becomes the open Message.
C4_SystemNoticeOpensMessage ==
    [][(Len(raw') = Len(raw) + 1 /\ SysNotice(raw'[Len(raw')])) =>
          /\ Len(msgs') = Len(msgs) + 1
          /\ SubSeq(msgs', 1, Len(msgs)) = msgs
          /\ msgs'[Len(msgs')].author = <<>>
          /\ msgs'[Len(msgs')].text = Facts[raw'[Len(raw')]].systext
          /\ last' = Len(msgs')]_vars

\* The positions in raw of the lines that matched an author pattern.
HeaderLines == {k \in 1..Len(raw) : Facts[raw[k]].header}

\* The position of the i-th header line, and Len(raw) + 1 past the last one.
NthHeader(i) ==
    IF i > Cardinality(HeaderLines) THEN Len(raw) + 1
    ELSE CHOOSE k \in HeaderLines : Cardinality({j \in HeaderLines : j <= k}) = i

\* C5: the lines before the first header line create no Message and are part of no
\* Message's text: there are as many Messages as header lines, and the text of each
\* is made of its header line's remainder and of the lines between that header line
\* and the next.  (When an exception leaves parse_messages there is no Message list.)
C5_OrphanLinesDropped ==
    pstate \in {"loop", "returned"} =>
        /\ Len(msgs) = Cardinality(HeaderLines)
        /\ \A i \in 1..Len(msgs) :
              msgs[i].text = Facts[raw[NthHeader(i)]].text
                                 \o Absorbed(SubSeq(raw, NthHeader(i) + 1, NthHeader(i + 1) - 1))

C5_Witness ==
    /\ pstate = "returned"
    /\ Len(raw) = 3
    /\ HeaderLines = {3}
    /\ raw[1] # <<>> /\ raw[2] # <<>>
    /\ Len(msgs) = 1
    /\ msgs[1].text = Facts[raw[3]].text

-----------------------------------------------------------------------------
(* choose_me_name *)

Upper ==
    <<"A", "B", "C", "D", "E", "F", "G", "H", "I", "J", "K", "L", "M",
      "N", "O", "P", "Q", "R", "S", "T", "U", "V", "W", "X", "Y", "Z">>

Lower ==
    <<"a", "b", "c", "d", "e", "f", "g", "h", "i", "j", "k", "l", "m",
      "n", "o", "p", "q", "r", "s", "t", "u", "v", "w", "x", "y", "z">>

\* str.casefold() on the characters of the model.
Casefold(s) ==
    [k \in 1..Len(s) |->
        IF \E j \in 1..Len(Upper) : Upper[j] = s[k]
        THEN Lower[CHOOSE j \in 1..Len(Upper) : Upper[j] = s[k]]
        ELSE s[k]]

\* str(i) for i >= 1.
RECURSIVE IntToStr(_)
IntToStr(i) ==
    IF i < 10 THEN <<Digits[i + 1]>> ELSE IntToStr(i \div 10) \o <<Digits[(i % 10) + 1]>>

Range(f) == {f[k] : k \in DOMAIN f}

\* system
M_system ==
    <<"s", "y", "s", "t", "e", "m">>

\* whatsapp
M_whatsapp ==
    <<"w", "h", "a", "t", "s", "a", "p", "p">>

\* messages to this chat are now secured
M_secured ==
    <<"m", "e", "s", "s", "a", "g", "e", "s", " ", "t", "o", " ", "t", "h", "i", "s", " ",
      "c", "h", "a", "t", " ", "a", "r", "e", " ", "n", "o", "w", " ", "s", "e", "c", "u",
      "r", "e", "d">>

\* nachrichten und anrufe sind ende-zu-ende-verschlüsselt
M_verschluesselt ==
    <<"n", "a", "c", "h", "r", "i", "c", "h", "t", "e", "n", " ", "u", "n", "d", " ", "a",
      "n", "r", "u", "f", "e", " ", "s", "i", "n", "d", " ", "e", "n", "d", "e", "-", "z",
      "u", "-", "e", "n", "d", "e", "-", "v", "e", "r", "s", "c", "h", "l", "U_UML", "s", "s",
      "e", "l", "t">>

\* Ich
DefaultName ==
    <<"I", "c", "h">>

\* System
A_System ==
    <<"S", "y", "s", "t", "e", "m">>

\* Alice
A_Alice ==
    <<"A", "l", "i", "c", "e">>

\* Alice between a space and a no-break space
A_AliceSp ==
    <<" ", "A", "l", "i", "c", "e", "NBSP">>

\* ALICE
A_ALICE ==
    <<"A", "L", "I", "C", "E">>

\* a space
A_Blank ==
    <<" ">>

\* Bob
A_Bob ==
    <<"B", "o", "b">>

\* the empty input
I_empty ==
    <<>>

\* 1
I_one ==
    <<"1">>

\*  2). between spaces
I_two ==
    <<" ", "2", ")", ".", " ">>

\* 9
I_nine ==
    <<"9">>

\* alice
I_alice ==
    <<"a", "l", "i", "c", "e">>

\* Bo
I_bo ==
    <<"B", "o">>

system_markers == {M_system, M_whatsapp, M_secured, M_verschluesselt}

AuthorNames == {A_System, A_Alice, A_AliceSp, A_ALICE, A_Blank, A_Bob}

InputTexts == {I_empty, I_one, I_two, I_nine, I_alice, I_bo}

\* All sequences over S of length at most n.
SeqsUpTo(S, n) == UNION {[1..k -> S] : k \in 0..n}

\* The first loop: the normalised authors that are not empty, each once, in order.
RECURSIVE Dedup(_, _)
Dedup(as, acc) ==
    IF as = <<>> THEN acc
    ELSE With(norm_space(Head(as)), LAMBDA a2 :
             Dedup(Tail(as), IF a2 = <<>> \/ a2 \in Range(acc) THEN acc ELSE Append(acc, a2)))

\* uniq2.
NotSystem(u) == SelectSeq(u, LAMBDA a : Casefold(norm_space(a)) \notin system_markers)

\* Candidates that keep the system pseudo-authors.
CandidatesNoFilter(as) == Dedup(as, <<>>)

\* uniq where the function first reads it: `if uniq2: uniq = uniq2`.
Candidates(as) ==
    With(Dedup(as, <<>>), LAMBDA u :
        IF NotSystem(u) # <<>> THEN NotSystem(u) ELSE u)

\* An idx_map whose numbers start at 0.
IdxMapFromZero(u) ==
    [key \in {IntToStr(i - 1) : i \in 1..Len(u)} |->
        u[CHOOSE i \in 1..Len(u) : IntToStr(i - 1) = key]]

\* idx_map: str(i) to the i-th candidate.
idx_map(u) ==
    [key \in {IntToStr(i) : i \in 1..Len(u)} |->
        u[CHOOSE i \in 1..Len(u) : IntToStr(i) = key]]

\* name_map: the dict comprehension keeps the last candidate of each key.
name_map(u) ==
    [key \in {Casefold(u[i]) : i \in 1..Len(u)} |->
        u[CHOOSE i \in 1..Len(u) :
              /\ Casefold(u[i]) = key
              /\ \A j \in 1..Len(u) : Casefold(u[j]) = key => j <= i]]

ChooseReturn(name) ==
    /\ cret' = name
    /\ cstate' = "returned"

\* `if not uniq: return "Ich"`.
ReturnDefault ==
    /\ cstate = "start"
    /\ Candidates(authors) = <<>>
    /\ uniq' = <<>>
    /\ ChooseReturn(DefaultName)
    /\ UNCHANGED <<authors, tty, cinput, nprompts,
                 parseVars, previewVars, urlVars, renderVars>>

\* `if not interactive: return uniq[0]`; isatty() that raises counts as not interactive.
ReturnFirst ==
    /\ cstate = "start"
    /\ Candidates(authors) # <<>>
    /\ tty # "tty"
    /\ uniq' = Candidates(authors)
    /\ ChooseReturn(Candidates(authors)[1])
    /\ UNCHANGED <<authors, tty, cinput, nprompts,
                 parseVars, previewVars, urlVars, renderVars>>

\* The numbered list is printed and the loop is entered.
ShowList ==
    /\ cstate = "start"
    /\ Candidates(authors) # <<>>
    /\ tty = "tty"
    /\ uniq' = Candidates(authors)
    /\ cstate' = "prompt"
    /\ UNCHANGED <<authors, tty, cinput, cret, nprompts,
                 parseVars, previewVars, urlVars, renderVars>>

\* One input() of the loop.
ReadInput(inp) ==
    /\ cstate = "prompt"
    /\ nprompts < MaxPrompts
    /\ nprompts' = nprompts + 1
    /\ cinput' = inp
    /\ UNCHANGED <<authors, tty, uniq, parseVars, previewVars, urlVars, renderVars>>

InputEOF ==
    /\ ReadInput([eof |-> TRUE, text |-> <<>>])
    /\ ChooseReturn(uniq[1])

InputEmpty(text) ==
    /\ ReadInput([eof |-> FALSE, text |-> text])
    /\ norm_space(text) = <<>>
    /\ ChooseReturn(uniq[1])

InputNumber(text) ==
    /\ ReadInput([eof |-> FALSE, text |-> text])
    /\ \E rawin \in {norm_space(text)} :
          /\ rawin # <<>>
          /\ RStrip(rawin, {")", "."}) \in DOMAIN idx_map(uniq)
          /\ ChooseReturn(idx_map(uniq)[RStrip(rawin, {")", "."})])

InputName(text) ==
    /\ ReadInput([eof |-> FALSE, text |-> text])
    /\ \E rawin \in {norm_space(text)} :
          /\ rawin # <<>>
          /\ RStrip(rawin, {")", "."}) \notin DOMAIN idx_map(uniq)
          /\ Casefold(rawin) \in DOMAIN name_map(uniq)
          /\ ChooseReturn(name_map(uniq)[Casefold(rawin)])

InputInvalid(text) ==
    /\ ReadInput([eof |-> FALSE, text |-> text])
    /\ \E rawin \in {norm_space(text)} :
          /\ rawin # <<>>
          /\ RStrip(rawin, {")", "."}) \notin DOMAIN idx_map(uniq)
          /\ Casefold(rawin) \notin DOMAIN name_map(uniq)
          /\ UNCHANGED <<cret, cstate>>

InitChoose ==
    /\ authors \in SeqsUpTo(AuthorNames, MaxAuthors)
    /\ tty \in {"tty", "notty", "error"}
    /\ uniq = <<>> /\ cstate = "start" /\ cinput = [eof |-> FALSE, text |-> <<>>]
    /\ cret = <<>> /\ nprompts = 0
    /\ ParseIdle /\ PreviewIdle /\ UrlIdle /\ RenderIdle

NextChoose ==
    \/ ReturnDefault
    \/ ReturnFirst
    \/ ShowList
    \/ InputEOF
    \/ \E text \in InputTexts :
          \/ InputEmpty(text)
          \/ InputNumber(text)
          \/ InputName(text)
          \/ InputInvalid(text)

SpecChoose == InitChoose /\ [][NextChoose]_vars

-----------------------------------------------------------------------------
(* Properties of choose_me_name *)

NormAuthors == [k \in 1..Len(authors) |-> norm_space(authors[k])]

IsSystemName(a) == Casefold(a) \in system_markers

\* The answer of the selection when nothing is read from the terminal.
FirstChoice ==
    IF \E k \in 1..Len(authors) : NormAuthors[k] # <<>> /\ ~IsSystemName(NormAuthors[k])
    THEN NormAuthors[CHOOSE k \in 1..Len(authors) :
            /\ NormAuthors[k] # <<>> /\ ~IsSystemName(NormAuthors[k])
            /\ \A j \in 1..(k - 1) : NormAuthors[j] = <<>> \/ IsSystemName(NormAuthors[j])]
    ELSE IF \E k \in 1..Len(authors) : NormAuthors[k] # <<>>
    THEN NormAuthors[CHOOSE k \in 1..Len(authors) :
            /\ NormAuthors[k] # <<>>
            /\ \A j \in 1..(k - 1) : NormAuthors[j] = <<>>]
    ELSE DefaultName

NoTerminal == tty # "tty" \/ \A k \in 1..Len(authors) : NormAuthors[k] = <<>>

\* C9: when standard input is not a terminal (or there is no non-empty author),
\* choose_me_name never reaches the prompt and returns, without reading any
\* input, the first normalised non-empty author that is not a system
\* pseudo-author; if all of them are system pseudo-authors, the first
\* non-empty author; if there is none, the default label "Ich".  For the
\* authors System, Alice the result is Alice.
C9_NonInteractiveChoice ==
    NoTerminal =>
        /\ cstate # "prompt"
        /\ nprompts = 0
        /\ cstate = "returned" => cret = FirstChoice
        /\ (cstate = "returned" /\ authors = <<A_System, A_Alice>>) => cret = A_Alice

C9_Witness ==
    /\ cstate = "returned"
    /\ tty = "notty"
    /\ authors = <<A_System, A_Alice>>
    /\ cret = A_Alice
    /\ nprompts = 0

\* A step of the prompt loop: one input has been read.
PromptStep == cstate = "prompt" /\ nprompts' = nprompts + 1

Returned(name) == cstate' = "returned" /\ cret' = name

Reprompted == cstate' = "prompt" /\ cret' = cret /\ uniq' = uniq /\ authors' = authors

\* The candidates whose name equals the input up to case.
SameName(r) == {k \in 1..Len(uniq) : Casefold(uniq[k]) = Casefold(r)}

\* The number of a displayed candidate, followed by any run of ")" and ".".
NumberOf(r) == {k \in 1..Len(uniq) : RStrip(r, {")", "."}) = IntToStr(k)}

\* The number of a displayed candidate as the list shows it: "2" or "2)".
DisplayedNumberOf(r) ==
    {k \in 1..Len(uniq) : r = IntToStr(k) \/ r = IntToStr(k) \o <<")">>}

\* C10: in the prompt loop the input is normalised first; end of input and an
\* empty input return the first candidate; a displayed number optionally
\* followed by ")" and "." characters returns that candidate; otherwise a name
\* equal to a candidate up to case returns the candidate with that name (the
\* last one listed when several differ only in case); every other input leaves
\* everything unchanged and prompts again; the value returned is always one of
\* the displayed candidates.
C10_PromptLoop ==
    [][PromptStep =>
        /\ IF cinput'.eof \/ norm_space(cinput'.text) = <<>>
           THEN Returned(uniq[1])
           ELSE IF NumberOf(norm_space(cinput'.text)) # {}
           THEN \E k \in NumberOf(norm_space(cinput'.text)) : Returned(uniq[k])
           ELSE IF SameName(norm_space(cinput'.text)) # {}
           THEN \E k \in SameName(norm_space(cinput'.text)) :
                   /\ Returned(uniq[k])
                   /\ \A j \in SameName(norm_space(cinput'.text)) : j <= k
           ELSE Reprompted
        /\ cstate' = "returned" => cret' \in Range(uniq)]_vars

C10_Witness ==
    /\ tty = "tty"
    /\ cstate = "returned"
    /\ nprompts >= 2
    /\ ~cinput.eof
    /\ norm_space(cinput.text) = <<"2", ")", ".">>
    /\ Len(uniq) >= 2
    /\ cret = uniq[2]

\* C10 as the specification states it: the loop returns only for a displayed
\* number, a name equal to a candidate up to case, an empty input or the end of
\* the input, and any other input prompts again.
C10_AsStated ==
    [][PromptStep =>
        /\ IF cinput'.eof \/ norm_space(cinput'.text) = <<>>
           THEN Returned(uniq[1])
           ELSE IF DisplayedNumberOf(norm_space(cinput'.text)) # {}
           THEN \E k \in DisplayedNumberOf(norm_space(cinput'.text)) : Returned(uniq[k])
           ELSE IF SameName(norm_space(cinput'.text)) # {}
           THEN \E k \in SameName(norm_space(cinput'.text)) : Returned(uniq[k])
           ELSE Reprompted
        /\ cstate' = "returned" => cret' \in Range(uniq)]_vars

-----------------------------------------------------------------------------
(* Link previews: URLs *)

\* Values that are None in the program and are compared with records.
None == [none |-> TRUE]

StartsWith(s, pre) == Len(s) >= Len(pre) /\ SubSeq(s, 1, Len(pre)) = pre

EndsWith(s, suf) == Len(s) >= Len(suf) /\ SubSeq(s, Len(s) - Len(suf) + 1, Len(s)) = suf

\* `sub in s`.
Contains(s, sub) == \E k \in 0..(Len(s) - Len(sub)) : SubSeq(s, k + 1, k + Len(sub)) = sub

\* The position of the first character of s that is in cs, Len(s) + 1 without one.
Cut(s, cs) ==
    IF \E k \in 1..Len(s) : s[k] \in cs
    THEN CHOOSE k \in 1..Len(s) : s[k] \in cs /\ \A m \in 1..(k - 1) : s[m] \notin cs
    ELSE Len(s) + 1

\* str.lstrip(chars).
RECURSIVE LStrip(_, _)
LStrip(s, cs) == IF s # <<>> /\ s[1] \in cs THEN LStrip(Tail(s), cs) ELSE s

\* str.strip(chars).
StripChars(s, cs) == LStrip(RStrip(s, cs), cs)

\* `a or b` on strings.
Or(a, b) == IF a # <<>> THEN a ELSE b

Https ==
    <<"h", "t", "t", "p", "s", ":">>

ThumbPrefix ==
    <<"h", "t", "t", "p", "s", ":", "/", "/", "i", "m", "g", ".", "y", "o", "u", "t",
      "u", "b", "e", ".", "c", "o", "m", "/", "v", "i", "/">>

ThumbSuffix ==
    <<"/", "h", "q", "d", "e", "f", "a", "u", "l", "t", ".", "j", "p", "g">>

ImagePrefix ==
    <<"i", "m", "a", "g", "e", "/">>

TitleYouTube ==
    <<"Y", "o", "u", "T", "u", "b", "e">>

\* urlsplit: the netloc check and the four components, after the scheme is cut off.
UrlParseRest(scheme, netloc, rest) ==
    IF ("[" \in Range(netloc)) # ("]" \in Range(netloc)) THEN ValueError
    ELSE [scheme |-> scheme, netloc |-> netloc,
          path |-> SubSeq(rest, 1, Cut(rest, {"?"}) - 1),
          query |-> SubSeq(rest, Cut(rest, {"?"}) + 1, Len(rest))]

UrlParseNetloc(scheme, s) ==
    UrlParseRest(scheme, SubSeq(s, 1, Cut(s, {"/", "?"}) - 1),
                 SubSeq(s, Cut(s, {"/", "?"}), Len(s)))

UrlParseBody(scheme, body) ==
    IF StartsWith(body, <<"/", "/">>)
    THEN UrlParseNetloc(scheme, SubSeq(body, 3, Len(body)))
    ELSE UrlParseRest(scheme, <<>>, body)

\* urllib.parse.urlparse for URLs without params and fragment, https the one scheme.
urlparse(u) ==
    IF StartsWith(u, Https)
    THEN UrlParseBody(<<"h", "t", "t", "p", "s">>, SubSeq(u, Len(Https) + 1, Len(u)))
    ELSE UrlParseBody(<<>>, u)

\* The "k=v" fields of a query whose key is v and whose value is not blank.
VFields(query) ==
    SelectSeq(Split(query, "&"),
              LAMBDA f : /\ Len(Split(f, "=")) = 2
                         /\ Split(f, "=")[1] = <<"v">>
                         /\ Split(f, "=")[2] # <<>>)

\* urllib.parse.parse_qs(query).get("v", []).
parse_qs_v(query) == [k \in 1..Len(VFields(query)) |-> Split(VFields(query)[k], "=")[2]]

YoutubeId(host, path, query) ==
    IF EndsWith(host, <<"y", "o", "u", "t", "u", ".", "b", "e">>)
    THEN Split(StripChars(path, {"/"}), "/")[1]
    ELSE IF \/ Contains(host, <<"y", "o", "u", "t", "u", "b", "e", ".", "c", "o", "m">>)
            \/ Contains(host, <<"m", ".", "y", "o", "u", "t", "u", "b", "e", ".", "c", "o", "m">>)
    THEN IF parse_qs_v(query) # <<>>
         THEN parse_qs_v(query)[1]
         ELSE IF StartsWith(path, <<"/", "s", "h", "o", "r", "t", "s", "/">>)
         THEN IF Len(Split(path, "/")) >= 3 THEN Split(path, "/")[3] ELSE <<>>
         ELSE <<>>
    ELSE <<>>

\* is_youtube_url: the video id; the empty string stands for None, the caller
\* tests `if vid`.
is_youtube_url(u) ==
    With(urlparse(u), LAMBDA pu :
        IF pu = ValueError THEN <<>>
        ELSE YoutubeId(Casefold(pu.netloc), pu.path, pu.query))

\* urljoin raises what urlparse raises on the reference.
urljoin_raises(ref) == ref # <<>> /\ urlparse(ref) = ValueError

\* The base up to its last "/", the query left out.
BaseDir(base) ==
    With(SubSeq(base, 1, Cut(base, {"?"}) - 1), LAMBDA b :
        SubSeq(b, 1, CHOOSE k \in 1..Len(b) :
                        b[k] = "/" /\ \A m \in (k + 1)..Len(b) : b[m] # "/"))

\* _resolve_url: urllib.parse.urljoin(base, ref) for a reference that is
\* empty, absolute, scheme-relative or a plain relative path.
resolve_url(base, ref) ==
    IF ref = <<>> THEN base
    ELSE With(urlparse(ref), LAMBDA pr :
            IF pr.scheme # <<>> THEN ref
            ELSE IF pr.netloc # <<>> THEN Https \o ref
            ELSE BaseDir(base) \o ref)

guess_mime_from_name(name) ==
    With(Casefold(name), LAMBDA n :
        IF EndsWith(n, <<".", "j", "p", "g">>) \/ EndsWith(n, <<".", "j", "p", "e", "g">>)
        THEN <<"i", "m", "a", "g", "e", "/", "j", "p", "e", "g">>
        ELSE IF EndsWith(n, <<".", "p", "n", "g">>)
        THEN <<"i", "m", "a", "g", "e", "/", "p", "n", "g">>
        ELSE IF EndsWith(n, <<".", "g", "i", "f">>)
        THEN <<"i", "m", "a", "g", "e", "/", "g", "i", "f">>
        ELSE IF EndsWith(n, <<".", "w", "e", "b", "p">>)
        THEN <<"i", "m", "a", "g", "e", "/", "w", "e", "b", "p">>
        ELSE <<"a", "p", "p", "l", "i", "c", "a", "t", "i", "o", "n", "/",
               "o", "c", "t", "e", "t", "-", "s", "t", "r", "e", "a", "m">>)

U_page ==
    <<"h", "t", "t", "p", "s", ":", "/", "/", "a", ".", "e", "x", "a", "m", "p", "l",
      "e", "/", "p">>

U_short ==
    <<"h", "t", "t", "p", "s", ":", "/", "/", "y", "o", "u", "t", "u", ".", "b", "e",
      "/", "a", "b", "c">>

U_bare ==
    <<"h", "t", "t", "p", "s", ":", "/", "/", "y", "o", "u", "t", "u", ".", "b", "e",
      "/">>

U_watch ==
    <<"h", "t", "t", "p", "s", ":", "/", "/", "w", "w", "w", ".", "y", "o", "u", "t",
      "u", "b", "e", ".", "c", "o", "m", "/", "w", "a", "t", "c", "h", "?", "v", "=",
      "x", "y", "z">>

U_shorts ==
    <<"h", "t", "t", "p", "s", ":", "/", "/", "y", "o", "u", "t", "u", "b", "e", ".",
      "c", "o", "m", "/", "s", "h", "o", "r", "t", "s", "/", "s", "1">>

R_abs ==
    <<"h", "t", "t", "p", "s", ":", "/", "/", "a", ".", "e", "x", "a", "m", "p", "l",
      "e", "/", "i", ".", "p", "n", "g">>

R_rel ==
    <<"i", ".", "b", "i", "n">>

R_bad ==
    <<"/", "/", "[", "x">>

CT_png ==
    <<"I", "m", "a", "g", "e", "/", "P", "N", "G">>

CT_html ==
    <<"t", "e", "x", "t", "/", "h", "t", "m", "l", ";", " ", "c", "h", "a", "r", "s",
      "e", "t", "=", "u", "t", "f", "-", "8">>

T_og ==
    <<"T", " ">>

T_title ==
    <<"t">>

D_og ==
    <<" ", "D">>

D_desc ==
    <<"d">>

-----------------------------------------------------------------------------
(* Link previews: build_preview *)

\* max_bytes of _download_image_as_data_url.
max_bytes == 2500000

Urls == {U_page, U_short, U_bare, U_watch, U_shorts}

\* What _http_get does on a call: it raises, or returns data and a content type.
HttpError == [error |-> "URLError"]

ImageResponses ==
    {HttpError} \cup
    {[len |-> 1, ct |-> CT_png], [len |-> 1, ct |-> CT_html],
     [len |-> 1, ct |-> <<>>], [len |-> max_bytes + 1, ct |-> CT_png]}

\* The dictionary _parse_meta returns for a page; an empty string is a missing key.
Meta(og_title, title, og_description, description, og_image, twitter_image) ==
    [og_title |-> og_title, title |-> title, og_description |-> og_description,
     description |-> description, og_image |-> og_image, twitter_image |-> twitter_image]

Metas ==
    {Meta(<<>>, <<>>, <<>>, <<>>, <<>>, <<>>),
     Meta(T_og, T_title, D_og, <<>>, R_abs, <<>>),
     Meta(<<>>, T_title, <<>>, D_desc, <<>>, R_rel),
     Meta(T_og, <<>>, <<>>, <<>>, R_bad, <<>>)}

\* `ct.split(";")[0].strip().lower() if ct else ""`.
MimeOf(ct) == IF ct # <<>> THEN Casefold(Strip(Split(ct, ";")[1])) ELSE <<>>

\* The data URL, its payload kept as the length of the data.
DataUrl(mime, resp) == [mime |-> mime, len |-> resp.len]

\* A data URL for whatever type the name gives.
AlwaysDataUrl(mime, resp) == DataUrl(mime, resp)

GuessedDataUrl(mime, resp) ==
    IF StartsWith(mime, ImagePrefix) THEN DataUrl(mime, resp) ELSE None

\* A download that embeds the image whatever its size.
DownloadIgnoringSize(img_url, resp) ==
    IF resp = HttpError THEN None
    ELSE IF StartsWith(MimeOf(resp.ct), ImagePrefix) THEN DataUrl(MimeOf(resp.ct), resp)
    ELSE GuessedDataUrl(guess_mime_from_name(urlparse(img_url).path), resp)

\* _download_image_as_data_url on the response resp of _http_get.
download_image_as_data_url(img_url, resp) ==
    IF resp = HttpError THEN None
    ELSE IF resp.len > max_bytes THEN None
    ELSE IF StartsWith(MimeOf(resp.ct), ImagePrefix) THEN DataUrl(MimeOf(resp.ct), resp)
    ELSE GuessedDataUrl(guess_mime_from_name(urlparse(img_url).path), resp)

Preview(url, title, description, image_data_url) ==
    [url |-> url, title |-> title, description |-> description,
     image_data_url |-> image_data_url]

MetaTitle(meta, url) == Or(Or(meta.og_title, meta.title), url)

MetaDesc(meta) == Or(meta.og_description, meta.description)

MetaImg(meta) == Or(meta.og_image, meta.twitter_image)

\* A lookup that never finds the URL.
NeverCached(u) == FALSE

\* `url in _preview_cache`.
Cached(u) == u \in DOMAIN cache

\* An image fetch for every page.
FetchImageAlways(meta) == TRUE

\* `if img:`.
FetchImage(meta) == MetaImg(meta) # <<>>

\* is_youtube_url on the URLs of the model.
VideoIds == [u \in Urls |-> is_youtube_url(u)]

ThumbUrl(vid) == ThumbPrefix \o vid \o ThumbSuffix

\* The outbound fetches as the log records them.
PageFetch(u, resp) == [kind |-> "page", url |-> u, resp |-> resp]

ImageFetch(u, resp) == [kind |-> "image", url |-> u, resp |-> resp]

PageOk(meta) == [meta |-> meta]

\* One more page fetch of u.
CountFetch(f, u) ==
    IF u \in DOMAIN f THEN [f EXCEPT ![u] = @ + 1] ELSE (u :> 1) @@ f

\* A call of build_preview begins: the program has not been ended by an error.
Call(u) ==
    /\ calls < MaxCalls
    /\ callRet # ValueError
    /\ calls' = calls + 1
    /\ callUrl' = u
    /\ UNCHANGED <<parseVars, chooseVars, urlVars, renderVars>>

\* `_preview_cache[url] = prev; return prev`.
StoreAndReturn(u, prev) ==
    /\ cache' = (u :> prev) @@ cache
    /\ callRet' = prev

BuildPreviewCached(u) ==
    /\ Call(u)
    /\ Cached(u)
    /\ callHit' = TRUE
    /\ callLog' = <<>>
    /\ callRet' = cache[u]
    /\ UNCHANGED <<cache, pageFetches>>

BuildPreviewYouTube(u, resp) ==
    /\ Call(u)
    /\ ~Cached(u)
    /\ VideoIds[u] # <<>>
    /\ callHit' = FALSE
    /\ \E thumb \in {ThumbUrl(VideoIds[u])} :
          /\ callLog' = <<ImageFetch(thumb, resp)>>
          /\ StoreAndReturn(u, Preview(u, TitleYouTube, <<>>,
                                       download_image_as_data_url(thumb, resp)))
    /\ UNCHANGED pageFetches

\* The page fetch raises: None is returned and nothing is stored.
BuildPreviewFetchFailed(u) ==
    /\ Call(u)
    /\ ~Cached(u)
    /\ VideoIds[u] = <<>>
    /\ callHit' = FALSE
    /\ callLog' = <<PageFetch(u, HttpError)>>
    /\ pageFetches' = CountFetch(pageFetches, u)
    /\ callRet' = None
    /\ UNCHANGED cache

PageFetched(u, meta) ==
    /\ Call(u)
    /\ ~Cached(u)
    /\ VideoIds[u] = <<>>
    /\ callHit' = FALSE
    /\ pageFetches' = CountFetch(pageFetches, u)

BuildPreviewPage(u, meta) ==
    /\ PageFetched(u, meta)
    /\ ~FetchImage(meta)
    /\ callLog' = <<PageFetch(u, PageOk(meta))>>
    /\ StoreAndReturn(u, Preview(u, Strip(MetaTitle(meta, u)), Strip(MetaDesc(meta)), None))

BuildPreviewPageImage(u, meta, resp) ==
    /\ PageFetched(u, meta)
    /\ FetchImage(meta)
    /\ ~urljoin_raises(MetaImg(meta))
    /\ \E img_url \in {resolve_url(u, MetaImg(meta))} :
          /\ callLog' = <<PageFetch(u, PageOk(meta)), ImageFetch(img_url, resp)>>
          /\ StoreAndReturn(u, Preview(u, Strip(MetaTitle(meta, u)), Strip(MetaDesc(meta)),
                                       download_image_as_data_url(img_url, resp)))

\* urljoin raises on the image reference: the ValueError leaves build_preview.
BuildPreviewBadImageRef(u, meta) ==
    /\ PageFetched(u, meta)
    /\ FetchImage(meta)
    /\ urljoin_raises(MetaImg(meta))
    /\ callLog' = <<PageFetch(u, PageOk(meta))>>
    /\ callRet' = ValueError
    /\ UNCHANGED cache

InitPreview ==
    /\ cache = <<>> /\ calls = 0 /\ callUrl = <<>> /\ callHit = FALSE
    /\ callLog = <<>> /\ callRet = None /\ pageFetches = <<>>
    /\ ParseIdle /\ ChooseIdle /\ UrlIdle /\ RenderIdle

NextPreview ==
    \E u \in Urls :
        \/ BuildPreviewCached(u)
        \/ BuildPreviewFetchFailed(u)
        \/ \E resp \in ImageResponses : BuildPreviewYouTube(u, resp)
        \/ \E meta \in Metas :
              \/ BuildPreviewPage(u, meta)
              \/ BuildPreviewBadImageRef(u, meta)
              \/ \E resp \in ImageResponses : BuildPreviewPageImage(u, meta, resp)

SpecPreview == InitPreview /\ [][NextPreview]_vars

-----------------------------------------------------------------------------
(* Properties of build_preview *)

\* A step that is one call of build_preview.
CallStep == calls' = calls + 1

IsVideoUrl(u) == VideoIds[u] # <<>>

\* C2: over the calls of one run every URL is fetched at most once: a URL
\* whose page fetch failed is answered from the cache afterwards and is not
\* fetched again.
C2_OneFetchPerUrl ==
    \A u \in DOMAIN pageFetches : pageFetches[u] <= 1

\* C6: a Preview stored in the cache is never replaced or removed by a later
\* call for any URL, its url field is its key, and a later call for its URL
\* returns that record without an outbound fetch.
C6_StoredPreviewStable ==
    [][/\ \A u \in DOMAIN cache : u \in DOMAIN cache' /\ cache'[u] = cache[u]
       /\ \A u \in DOMAIN cache' : cache'[u].url = u
       /\ (CallStep /\ callUrl' \in DOMAIN cache) =>
             /\ callRet' = cache[callUrl']
             /\ callLog' = <<>>
             /\ pageFetches' = pageFetches]_vars

C6_Witness ==
    /\ calls >= 3
    /\ callHit
    /\ callLog = <<>>
    /\ Cardinality(DOMAIN cache) >= 2
    /\ callUrl \in DOMAIN cache
    /\ callRet = cache[callUrl]

\* The last call fetched the thumbnail and the fetch raised or was oversized.
ThumbFailed ==
    /\ IsVideoUrl(callUrl)
    /\ callLog # <<>>
    /\ callLog[1].kind = "image"
    /\ \/ callLog[1].resp = HttpError
       \/ callLog[1].resp # HttpError /\ callLog[1].resp.len > max_bytes

\* The last call fetched the page and the fetch raised.
PageFailed ==
    /\ ~IsVideoUrl(callUrl)
    /\ callLog # <<>>
    /\ callLog[1].kind = "page"
    /\ callLog[1].resp = HttpError

\* C7: a call on a video URL whose thumbnail fetch fails returns a Preview
\* with the title "YouTube", an empty description and no image; a call on any
\* other URL whose page fetch fails returns None; in neither case does the
\* call raise.
C7_FailureOutcomes ==
    (calls > 0 /\ ~callHit) =>
        /\ ThumbFailed =>
              /\ callRet = [url |-> callUrl, title |-> TitleYouTube,
                            description |-> <<>>, image_data_url |-> None]
              /\ callUrl \in DOMAIN cache
        /\ PageFailed => callRet = None
        /\ (ThumbFailed \/ PageFailed) => callRet # ValueError

C7_Witness ==
    /\ calls >= 2
    /\ ThumbFailed
    /\ callRet.title = TitleYouTube
    /\ callRet.image_data_url = None
    /\ \E u \in DOMAIN pageFetches : u \notin DOMAIN cache

\* The image reference of a fetched page, as the log holds the page's metadata.
HasImageRef(fetch) ==
    /\ fetch.resp # HttpError
    /\ fetch.resp.meta.og_image # <<>> \/ fetch.resp.meta.twitter_image # <<>>

FetchedBefore(u) == IF u \in DOMAIN pageFetches THEN pageFetches[u] ELSE 0

\* C8: a call on a cached URL issues no fetch; a call on an uncached video URL
\* issues exactly one fetch, of the thumbnail, and no page fetch; a call on any
\* other uncached URL issues one page fetch of that URL and then at most one
\* image fetch, which happens only when the page fetch succeeded and the
\* metadata holds an image reference.
C8_BoundedFetches ==
    [][CallStep =>
        IF callUrl' \in DOMAIN cache
        THEN callLog' = <<>> /\ pageFetches' = pageFetches
        ELSE IF IsVideoUrl(callUrl')
        THEN /\ Len(callLog') = 1
             /\ callLog'[1].kind = "image"
             /\ callLog'[1].url = ThumbPrefix \o VideoIds[callUrl'] \o ThumbSuffix
             /\ pageFetches' = pageFetches
        ELSE /\ Len(callLog') \in {1, 2}
             /\ callLog'[1].kind = "page"
             /\ callLog'[1].url = callUrl'
             /\ pageFetches'[callUrl'] = FetchedBefore(callUrl') + 1
             /\ \A u \in DOMAIN pageFetches : pageFetches'[u] = pageFetches[u] \/ u = callUrl'
             /\ Len(callLog') = 2 =>
                   /\ callLog'[2].kind = "image"
                   /\ HasImageRef(callLog'[1])]_vars

C8_Witness ==
    /\ calls >= 2
    /\ ~callHit
    /\ ~IsVideoUrl(callUrl)
    /\ Len(callLog) = 2
    /\ callLog[2].kind = "image"
    /\ callLog[2].resp = HttpError
    /\ callRet = cache[callUrl]
    /\ callRet.image_data_url = None

-----------------------------------------------------------------------------
(* Properties of the header fields *)

\* The dotted dialect as the specification writes it: the dash between the
\* stamp and the author is an ASCII hyphen or an en-dash.
GrammarDe(str) ==
    With(str, LAMBDA s :
    With(StampDe(s, 1), LAMBDA st :
        IF st.ok
        THEN With(st.next + SpaceRun(s, st.next), LAMBDA h :
                 IF h > st.next /\ At(s, h) \in {"-", "ENDASH"}
                 THEN DeGroups(st, AuthorText(s, h + 1))
                 ELSE NoMatch)
        ELSE NoMatch))

\* The Message the specification's grammar gives for a line: date, time,
\* normalised author and text of the first dialect the line belongs to.
GrammarMessage(line) ==
    IF pat_iso(line).ok
    THEN Message(fromisoformat(pat_iso(line).d_s, pat_iso(line).t_s),
                 norm_space(pat_iso(line).author), pat_iso(line).text)
    ELSE IF GrammarDe(line).ok
    THEN Message(parse_dt_de(GrammarDe(line).d, GrammarDe(line).t_hm, GrammarDe(line).t_sec),
                 norm_space(GrammarDe(line).author), GrammarDe(line).text)
    ELSE IF pat_bracket(line).ok
    THEN Message(parse_dt_de(pat_bracket(line).d, pat_bracket(line).t_hm,
                             pat_bracket(line).t_sec),
                 norm_space(pat_bracket(line).author), pat_bracket(line).text)
    ELSE Message(ValueError, <<>>, <<>>)

Grammar == [ln \in Lines |-> GrammarMessage(CleanLine(ln))]

\* A line of the grammar whose date and time exist.
GrammarHeader(ln) == Grammar[ln].ts # ValueError

\* C11 (as stated): a line of one of the three dialects, the dotted one with
\* an ASCII hyphen or an en-dash, opens a Message with exactly the line's date
\* and time (yy read as 2000 + yy, missing seconds as 0), its normalised
\* author and its text; `05.01.24, 9:00 - Al: Hey` gives author Al, year 2024
\* and text Hey, with either dash.
C11_HeaderFieldsExtracted ==
    [][(Len(raw') = Len(raw) + 1 /\ GrammarHeader(raw'[Len(raw')])) =>
          /\ msgs' = Append(msgs, Grammar[raw'[Len(raw')]])
          /\ last' = Len(msgs')
          /\ raw'[Len(raw')] \in {H_de, H_deEn} =>
                /\ msgs'[last'].author = <<"A", "l">>
                /\ msgs'[last'].text = <<"H", "e", "y">>
                /\ msgs'[last'].ts = [year |-> 2024, month |-> 1, day |-> 5,
                                      hour |-> 9, minute |-> 0, second |-> 0]]_vars

-----------------------------------------------------------------------------
(* extract_urls *)

\* The characters `[^\s<>\]]` excludes.
UrlStop(c) == IsSpace(c) \/ c \in {"\n", "<", ">", "]", "EOS"}

\* The least element of a set of numbers.
MinOf(S) == CHOOSE k \in S : \A j \in S : k <= j

\* The end of the run `[^\s<>\]]+` that starts at i, i - 1 for an empty run.
UrlRun(s, i) == MinOf({k \in i..(Len(s) + 1) : UrlStop(At(s, k))}) - 1

\* The n characters of s from position i on.
Take(s, i, n) == [k \in 1..n |-> At(s, i + k - 1)]

\* The position after `https?://` when it matches at i (IGNORECASE), else 0.
SchemeAt(s, i) ==
    IF Casefold(Take(s, i, 7)) = <<"h", "t", "t", "p", ":", "/", "/">> THEN i + 7
    ELSE IF Casefold(Take(s, i, 8)) = <<"h", "t", "t", "p", "s", ":", "/", "/">>
    THEN i + 8
    ELSE 0

\* The characters of `.rstrip(").,;:!?]\"'")`.
UrlTrail == {")", ".", ",", ";", ":", "!", "?", "]", "\"", "'"}

\* The positions from i on where _url_re matches.
UrlStarts(s, i) ==
    {k \in i..Len(s) : SchemeAt(s, k) # 0 /\ UrlRun(s, SchemeAt(s, k)) >= SchemeAt(s, k)}

\* _url_re.finditer from position i on, each match right-stripped.
RECURSIVE FindUrls(_, _)
FindUrls(s, i) ==
    IF UrlStarts(s, i) = {} THEN <<>>
    ELSE With(MinOf(UrlStarts(s, i)), LAMBDA k :
         With(UrlRun(s, SchemeAt(s, k)), LAMBDA e :
            <<RStrip(SubSeq(s, k, e), UrlTrail)>> \o FindUrls(s, e + 1)))

\* The second loop: each URL once, in the order of its first occurrence.
RECURSIVE Unique(_, _)
Unique(us, out) ==
    IF us = <<>> THEN out
    ELSE Unique(Tail(us), IF Head(us) \in Range(out) THEN out ELSE Append(out, Head(us)))

extract_urls(text) == Unique(FindUrls(text, 1), <<>>)

\* " ".join(us).
RECURSIVE JoinSpace(_)
JoinSpace(us) ==
    IF us = <<>> THEN <<>>
    ELSE IF Len(us) = 1 THEN us[1]
    ELSE us[1] \o <<" ">> \o JoinSpace(Tail(us))

\* https://a.b
K_url ==
    <<"h", "t", "t", "p", "s", ":", "/", "/", "a", ".", "b">>

\* https://a.b.
K_urlDot ==
    <<"h", "t", "t", "p", "s", ":", "/", "/", "a", ".", "b", ".">>

\* (HTTP://c/d)
K_paren ==
    <<"(", "H", "T", "T", "P", ":", "/", "/", "c", "/", "d", ")">>

\* <https://a.b>;
K_angle ==
    <<"<", "h", "t", "t", "p", "s", ":", "/", "/", "a", ".", "b", ">", ";">>

\* https://.
K_bare ==
    <<"h", "t", "t", "p", "s", ":", "/", "/", ".">>

\* x:
K_word ==
    <<"x", ":">>

Tokens == {K_url, K_urlDot, K_paren, K_angle, K_bare, K_word}

\* The texts of the model: up to MaxTokens tokens with single spaces between.
Texts == {JoinSpace(ts) : ts \in SeqsUpTo(Tokens, MaxTokens)}

ExtractUrls ==
    /\ ustate = "start"
    /\ uout' = extract_urls(utext)
    /\ ustate' = "extracted"
    /\ UNCHANGED <<utext, uagain, parseVars, chooseVars, previewVars, renderVars>>

\* extract_urls on the space-joined result of the first call.
ExtractAgain ==
    /\ ustate = "extracted"
    /\ uagain' = extract_urls(JoinSpace(uout))
    /\ ustate' = "again"
    /\ UNCHANGED <<utext, uout, parseVars, chooseVars, previewVars, renderVars>>

InitUrls ==
    /\ utext \in Texts
    /\ uout = <<>> /\ uagain = <<>> /\ ustate = "start"
    /\ ParseIdle /\ ChooseIdle /\ PreviewIdle /\ RenderIdle

NextUrls == ExtractUrls \/ ExtractAgain

SpecUrls == InitUrls /\ [][NextUrls]_vars

-----------------------------------------------------------------------------
(* Properties of extract_urls *)

\* The position of the first occurrence of u among the matches of the text.
FirstMatch(u) ==
    CHOOSE k \in 1..Len(FindUrls(utext, 1)) :
        /\ FindUrls(utext, 1)[k] = u
        /\ \A j \in 1..(k - 1) : FindUrls(utext, 1)[j] # u

\* The result holds every URL of the text once, in the order of first occurrence.
OnceInOrder ==
    /\ Range(uout) = Range(FindUrls(utext, 1))
    /\ \A i, j \in 1..Len(uout) : i < j => FirstMatch(uout[i]) < FirstMatch(uout[j])

NoTrailingPunctuation ==
    \A k \in 1..Len(uout) : uout[k] # <<>> /\ uout[k][Len(uout[k])] \notin UrlTrail

\* C12 (as stated): extract_urls lists each distinct URL of the text exactly
\* once in the order of first occurrence, no URL of the result ends in one of
\* the characters ).,;:!?]"' and extracting from the space-joined result gives
\* the same list.
C12_ExtractionIdempotent ==
    /\ ustate \in {"extracted", "again"} => OnceInOrder /\ NoTrailingPunctuation
    /\ ustate = "again" => uagain = uout

-----------------------------------------------------------------------------
(* Properties of the Message sequence *)

IsPrefix(a, b) == Len(a) <= Len(b) /\ SubSeq(b, 1, Len(a)) = a

\* C13: a step of parse_messages either appends exactly one Message at the end
\* and leaves every existing Message as it is, or leaves the list's length and
\* can only extend the text of the last Message; timestamp and author of a
\* Message never change, nor does the text of a Message that is not the last;
\* last refers to the last Message; the k-th Message carries the timestamp of
\* the k-th header line, whatever the order of the timestamps.
C13_AppendOnly ==
    [][/\ Len(msgs') \in {Len(msgs), Len(msgs) + 1}
       /\ \A k \in 1..Len(msgs) :
             /\ msgs'[k].ts = msgs[k].ts
             /\ msgs'[k].author = msgs[k].author
             /\ k < Len(msgs) => msgs'[k] = msgs[k]
       /\ Len(msgs') = Len(msgs) + 1 =>
             /\ SubSeq(msgs', 1, Len(msgs)) = msgs
             /\ last' = Len(msgs')
       /\ (Len(msgs') = Len(msgs) /\ msgs # <<>>) =>
             /\ last' = last
             /\ last = Len(msgs)
             /\ IsPrefix(msgs[Len(msgs)].text, msgs'[Len(msgs)].text)
       /\ \A k \in 1..Len(msgs') : msgs'[k].ts = Facts[raw'[NthHeader(k)']].ts]_vars

\* Two Messages, the first with the later timestamp and with an absorbed
\* line, the second appended after it.
C13_Witness ==
    /\ Len(raw) = 3
    /\ Len(msgs) = 2
    /\ last = 2
    /\ HeaderLines = {1, 3}
    /\ msgs[1].ts.second > msgs[2].ts.second
    /\ msgs[1].text = Facts[raw[1]].text \o <<"\n">> \o Facts[raw[2]].line
    /\ Facts[raw[2]].line # <<>>

-----------------------------------------------------------------------------
(* Properties of the normalisation of lines *)

\* The Text Normalizer of the specification on a line: marks and BOM removed,
\* non-breaking spaces replaced, trimmed, whitespace runs collapsed.
Normalized(ln) == norm_space(RemoveChars(RStrip(ln, {"\n"}), {"BOM"}))

\* C14 (as stated): a line is normalised before it is classified: a line of
\* whitespace only is handled as an empty line (a line break is appended to
\* the open Message, nothing happens without one), and a line that is no
\* header is appended to the open Message in its normalised form.
C14_LinesNormalized ==
    [][(Len(raw') = Len(raw) + 1 /\ PlainLine(raw'[Len(raw')])) =>
          /\ last' = last
          /\ msgs' = IF Normalized(raw'[Len(raw')]) = <<>>
                     THEN EmptyLineText(msgs, last)
                     ELSE ContinuationText(msgs, last, Normalized(raw'[Len(raw')]))]_vars

-----------------------------------------------------------------------------
(* Properties of the image step *)

\* The last call fetched a page that names an image and then the image, and
\* the image fetch returned a response.
ImageFetched ==
    /\ calls > 0 /\ ~callHit /\ ~IsVideoUrl(callUrl)
    /\ Len(callLog) = 2
    /\ callLog[2].resp # HttpError

Oversized == callLog[2].resp.len > max_bytes

NotImageType == ~StartsWith(MimeOf(callLog[2].resp.ct), ImagePrefix)

\* The path of the image URL ends in .jpg, .jpeg, .png, .gif or .webp.
ImageName ==
    StartsWith(guess_mime_from_name(urlparse(callLog[2].url).path), ImagePrefix)

\* The Preview of the page with the image left out, stored under the URL.
PreviewWithoutImage ==
    /\ callUrl \in DOMAIN cache
    /\ callRet = cache[callUrl]
    /\ callRet = [url |-> callUrl,
                  title |-> Strip(MetaTitle(callLog[1].resp.meta, callUrl)),
                  description |-> Strip(MetaDesc(callLog[1].resp.meta)),
                  image_data_url |-> None]

\* C15: when the page names an image and the image response is larger than
\* max_bytes, or its content type is not image/* and the path of the image
\* URL has no image extension either, the image is discarded: the Preview is
\* returned and stored with its title and description and without an image.
C15_ImageDiscarded ==
    (ImageFetched /\ (Oversized \/ (NotImageType /\ ~ImageName))) => PreviewWithoutImage

C15_Witness ==
    /\ ImageFetched
    /\ ~Oversized /\ NotImageType /\ ~ImageName
    /\ callLog[2].resp.ct # <<>>
    /\ PreviewWithoutImage
    /\ cache[callUrl].title # callUrl

\* C15 as the specification states it: an image response that is too large or
\* whose content type is not image/* is discarded.
C15_AsStated ==
    (ImageFetched /\ (Oversized \/ NotImageType)) => PreviewWithoutImage

-----------------------------------------------------------------------------
(* render_html and render_md as main calls them *)

\* The position after a match of _attach_re that starts at i, 0 without one:
\* "<", blanks, "Anhang:" in any case, at least one character, ">".
AttachEnd(s, i) ==
    IF At(s, i) # "<" THEN 0
    ELSE With(i + 1 + SpaceRun(s, i + 1), LAMBDA j :
            IF Casefold(Take(s, j, 7)) = <<"a", "n", "h", "a", "n", "g", ":">>
            THEN With(j + 6 + Cut(SubSeq(s, j + 7, Len(s)), {">"}), LAMBDA k :
                    IF k > j + 7 /\ k <= Len(s) THEN k + 1 ELSE 0)
            ELSE 0)

\* The positions from i on where _attach_re matches.
AttachStarts(s, i) == {k \in i..Len(s) : AttachEnd(s, k) # 0}

\* _attach_re.sub("", s) from position i on.
RECURSIVE AttachSub(_, _)
AttachSub(s, i) ==
    IF AttachStarts(s, i) = {} THEN SubSeq(s, i, Len(s))
    ELSE With(MinOf(AttachStarts(s, i)), LAMBDA k :
            SubSeq(s, i, k - 1) \o AttachSub(s, AttachEnd(s, k)))

strip_attachment_markers(text) == StripChars(AttachSub(text, 1), {" ", "\t", "NBSP", "\n"})

\* Hi <Anhang: a.jpg>
X_none ==
    <<"H", "i", " ", "<", "A", "n", "h", "a", "n", "g", ":", " ", "a", ".", "j", "p",
      "g", ">">>

\* https://a.example/p.
X_one ==
    <<"h", "t", "t", "p", "s", ":", "/", "/", "a", ".", "e", "x", "a", "m", "p", "l",
      "e", "/", "p", ".">>

\* see https://youtu.be/abc, https://a.example/p
X_two ==
    <<"s", "e", "e", " ", "h", "t", "t", "p", "s", ":", "/", "/", "y", "o", "u", "t",
      "u", ".", "b", "e", "/", "a", "b", "c", ",", " ", "h", "t", "t", "p", "s", ":",
      "/", "/", "a", ".", "e", "x", "a", "m", "p", "l", "e", "/", "p">>

\* <anhang: https://a.example/p > https://www.youtube.com/watch?v=xyz\n
X_attach ==
    <<"<", "a", "n", "h", "a", "n", "g", ":", " ", "h", "t", "t", "p", "s", ":", "/",
      "/", "a", ".", "e", "x", "a", "m", "p", "l", "e", "/", "p", " ", ">", " ", "h",
      "t", "t", "p", "s", ":", "/", "/", "w", "w", "w", ".", "y", "o", "u", "t", "u",
      "b", "e", ".", "c", "o", "m", "/", "w", "a", "t", "c", "h", "?", "v", "=", "x",
      "y", "z", "\n">>

RenderTexts == {X_none, X_one, X_two, X_attach}

\* The Messages render_html is given in the model.
RenderMessages ==
    {Message(datetime(2024, 1, 5, 9, 0, 0), <<"A", "l">>, text) : text \in RenderTexts}

\* `urls = extract_urls(text_wo_attach)` for the Messages of the model.
MessageUrls ==
    [m \in RenderMessages |-> extract_urls(strip_attachment_markers(m.text))]

\* A renderer that resolves previews whatever the flag says.
PreviewAlways(enable, urls) == urls # <<>>

\* `if enable_previews and urls:`.
PreviewWanted(enable, urls) == enable /\ urls # <<>>

\* The Message taken last is at its call of build_preview.
Pending == rwant /\ calls = rcalls

\* render_html has not been left by an exception of build_preview.
RenderRunning == rstate = "html" /\ ~Pending /\ callRet # ValueError

\* One turn of the loop of render_html up to the call of build_preview.
RenderHtmlMessage ==
    /\ RenderRunning
    /\ rpos < Len(msgs)
    /\ rpos' = rpos + 1
    /\ rcalls' = calls
    /\ \E urls \in {MessageUrls[msgs[rpos + 1]]} :
          /\ rwant' = PreviewWanted(enable_previews, urls)
          /\ rurl' = IF PreviewWanted(enable_previews, urls) THEN urls[1] ELSE <<>>
    /\ UNCHANGED <<enable_previews, rstate, parseVars, chooseVars, previewVars, urlVars>>

\* `prev = build_preview(first)`.
RenderHtmlPreview ==
    /\ rstate = "html"
    /\ Pending
    /\ \/ BuildPreviewCached(rurl)
       \/ BuildPreviewFetchFailed(rurl)
       \/ \E resp \in ImageResponses : BuildPreviewYouTube(rurl, resp)
       \/ \E meta \in Metas :
             \/ BuildPreviewPage(rurl, meta)
             \/ BuildPreviewBadImageRef(rurl, meta)
             \/ \E resp \in ImageResponses : BuildPreviewPageImage(rurl, meta, resp)

\* render_html returns and main calls render_md.
RenderHtmlEnd ==
    /\ RenderRunning
    /\ rpos = Len(msgs)
    /\ rstate' = "md"
    /\ rpos' = 0
    /\ rwant' = FALSE
    /\ rurl' = <<>>
    /\ UNCHANGED <<enable_previews, rcalls, parseVars, chooseVars, previewVars, urlVars>>

\* One turn of the loop of render_md: the URLs are listed, none is resolved.
RenderMdMessage ==
    /\ rstate = "md"
    /\ rpos < Len(msgs)
    /\ rpos' = rpos + 1
    /\ UNCHANGED <<enable_previews, rstate, rwant, rurl, rcalls,
                   parseVars, chooseVars, previewVars, urlVars>>

RenderMdEnd ==
    /\ rstate = "md"
    /\ rpos = Len(msgs)
    /\ rstate' = "done"
    /\ UNCHANGED <<enable_previews, rpos, rwant, rurl, rcalls,
                   parseVars, chooseVars, previewVars, urlVars>>

\* main at its call of render_html: msgs is what parse_messages returned,
\* enable_previews is `not args.no_previews`.
InitRender ==
    /\ msgs \in SeqsUpTo(RenderMessages, MaxMsgs)
    /\ raw = <<>> /\ last = Len(msgs) /\ pstate = "returned"
    /\ \E no_previews \in BOOLEAN : enable_previews = ~no_previews
    /\ rstate = "html" /\ rpos = 0 /\ rwant = FALSE /\ rurl = <<>> /\ rcalls = 0
    /\ cache = <<>> /\ calls = 0 /\ callUrl = <<>> /\ callHit = FALSE
    /\ callLog = <<>> /\ callRet = None /\ pageFetches = <<>>
    /\ ChooseIdle /\ UrlIdle

NextRender ==
    \/ RenderHtmlMessage
    \/ RenderHtmlPreview
    \/ RenderHtmlEnd
    \/ RenderMdMessage
    \/ RenderMdEnd

SpecRender == InitRender /\ [][NextRender]_vars

-----------------------------------------------------------------------------
(* Properties of rendering *)

\* C16: render_html calls build_preview only with previews enabled, at most
\* once for the Message it has taken and for the first URL of that Message's
\* text without attachment markers; with previews disabled there is no call,
\* no fetch and no change of the cache; render_md makes no call.
C16_RenderBoundsNetwork ==
    [][/\ CallStep =>
             /\ rstate = "html"
             /\ enable_previews
             /\ rpos \in 1..Len(msgs)
             /\ calls = rcalls
             /\ MessageUrls[msgs[rpos]] # <<>>
             /\ callUrl' = MessageUrls[msgs[rpos]][1]
       /\ (rstate = "html" /\ rpos' = rpos + 1) => rcalls' = calls /\ calls' = calls
       /\ rstate' = "html" => calls' <= rpos'
       /\ ~enable_previews =>
             /\ calls' = 0 /\ cache' = <<>> /\ pageFetches' = <<>> /\ callLog' = <<>>
       /\ rstate \in {"md", "done"} => UNCHANGED previewVars]_vars

\* Both renderers are through two Messages, the first with two URLs: one call,
\* for the first URL.
C16_Witness ==
    /\ rstate = "done"
    /\ enable_previews
    /\ Len(msgs) = 2
    /\ msgs[1].text = X_two
    /\ msgs[2].text = X_none
    /\ calls = 1
    /\ callUrl = U_short
    /\ DOMAIN cache = {U_short}
    /\ pageFetches = <<>>

====
